---- MODULE Spec2Model ----
(***************************************************************************)
(* Model of flower/views/dashboard.py: the dashboard push channel          *)
(* (DashboardUpdateHandler: listener list, shared PeriodicCallback, tick   *)
(* fan-out), the narrow snapshot builder dashboard_update, and the full   *)
(* snapshot DashboardView.get builds, purges and answers with.             *)
(*                                                                         *)
(* Worker names are modelled as integers 1..MaxWorkers; the integer order  *)
(* stands for the string order that sorted() uses.  Connection handles are *)
(* the integers 1..MaxConns.                                               *)
(***************************************************************************)
EXTENDS Integers, Sequences, FiniteSets, TLC

\* ---- bounds ----
MaxConns == 2
MaxWorkers == 2
MaxSteps == 4
MaxCount == 2

Conns == 1..MaxConns
Names == 1..MaxWorkers

\* the event types dashboard_update reads, lines 138-142
EventTypes == {"task-started", "task-received", "task-failed",
               "task-succeeded", "task-retried"}

\* python None (values of different python types are tagged records)
None == [none |-> TRUE]
\* the sentinel string of line 145
NA == "N/A"

\* the worker records the event-stream consumer may hold: alive flag, and
\* an optional loadavg attribute (getattr(worker, 'loadavg', None), line 155)
WorkerRecords == {[alive |-> TRUE], [alive |-> FALSE],
                  [alive |-> TRUE, loadavg |-> 1]}

\* what the consumer feeds in while connections come and go: one live
\* worker, and the two event types that move the active count up and down
ConsumerNames == {1}
ConsumerRecords == {[alive |-> TRUE]}
ConsumerTypes == {"task-started", "task-failed"}

VARIABLES
    conn,               \* per connection: "new", "open", "closing", "closed"
    listeners,          \* DashboardUpdateHandler.listeners (a python list)
    periodic_callback,  \* None, or [timer |-> k]: the k-th timer object built
    running,            \* periodic_callback._running
    timeouts,           \* timeouts the PeriodicCallback has on the IOLoop
    auto_refresh,       \* app.options.auto_refresh
    workers,            \* app.events.state.workers : name -> worker record
    counter,            \* app.events.state.counter : name -> (type -> count)
    received,           \* per connection: the messages written to it
    created,            \* history: number of PeriodicCallback objects built
    starts,             \* history: number of calls of PeriodicCallback.start
    ticks,              \* history: number of ticks fired
    events,             \* history: number of consumer events applied
    noRefresh,          \* history: connections opened with auto-refresh off
    closeRaised,        \* history: connections whose on_close raised
    update,             \* result of the last dashboard_update call
    http                \* the DashboardView.get request and its response

vars == <<conn, listeners, periodic_callback, running, timeouts,
          auto_refresh, workers, counter, received, created,
          starts, ticks, events, noRefresh, closeRaised, update, http>>


\* no request to DashboardView.get has arrived
NoRequest == [pc |-> "idle"]

\* ---- python list helpers ----
Range(s) == {s[i] : i \in 1..Len(s)}

\* x in list
In(x, s) == x \in Range(s)

\* the list without the first occurrence of x
RECURSIVE WithoutFirst(_, _)
WithoutFirst(s, x) ==
    IF s = <<>> THEN <<>>
    ELSE IF Head(s) = x THEN Tail(s)
    ELSE <<Head(s)>> \o WithoutFirst(Tail(s), x)

\* list.pop() in place of list.remove(x)
ListRemoveLast(s, x) ==
    [raised |-> ~In(x, s), list |-> SubSeq(s, 1, Len(s) - 1)]

\* list.remove(x): deletes the first occurrence, raises ValueError when
\* there is none
ListRemove(s, x) ==
    [raised |-> ~In(x, s), list |-> WithoutFirst(s, x)]

\* sorted(names): ascending sequence of a finite set of names
\* Sorted with the largest name first
RECURSIVE SortedDescending(_)
SortedDescending(S) ==
    IF S = {} THEN <<>>
    ELSE LET m == CHOOSE x \in S : \A y \in S : y <= x
         IN <<m>> \o SortedDescending(S \ {m})

RECURSIVE Sorted(_)
Sorted(S) ==
    IF S = {} THEN <<>>
    ELSE LET m == CHOOSE x \in S : \A y \in S : x <= y
         IN <<m>> \o Sorted(S \ {m})


\* number of occurrences of x in a list
RECURSIVE Count(_, _)
Count(x, s) ==
    IF s = <<>> THEN 0
    ELSE (IF Head(s) = x THEN 1 ELSE 0) + Count(x, Tail(s))

\* ---- dashboard_update: the narrow (broadcast) snapshot ----

\* counter.get(key, 0)
Get(cnt, key) == IF key \in DOMAIN cnt THEN cnt[key] ELSE 0

\* Active without the test of line 144
ActiveNoSentinel(started, succeeded, failed, retried) ==
    [int |-> started - succeeded - failed - retried]

\* lines 143-145: the derived active count, or the sentinel when negative.
\* An integer is tagged [int |-> v], the sentinel string [str |-> "N/A"].
Active(started, succeeded, failed, retried) ==
    LET active == started - succeeded - failed - retried
    IN  IF active < 0 THEN [str |-> NA] ELSE [int |-> active]

\* getattr(worker, 'loadavg', None)
LoadAvg(worker) ==
    IF "loadavg" \in DOMAIN worker THEN [int |-> worker.loadavg]
    ELSE None

\* lines 137-155: one entry of the snapshot
WorkerEntry(name, worker, cnt) ==
    [name      |-> name,
     status    |-> worker.alive,
     active    |-> Active(Get(cnt, "task-started"), Get(cnt, "task-succeeded"),
                          Get(cnt, "task-failed"), Get(cnt, "task-retried")),
     processed |-> Get(cnt, "task-received"),
     failed    |-> Get(cnt, "task-failed"),
     succeeded |-> Get(cnt, "task-succeeded"),
     retried   |-> Get(cnt, "task-retried"),
     loadavg   |-> LoadAvg(worker)]

\* state.counter is built outside this file.  It is the CounterTable of the
\* specification: a mapping the builders only read, whose lookup has no
\* error path.  state.counter[name] is the entry, or an empty Counter for a
\* name without one.
CounterLookup(c, name) == IF name \in DOMAIN c THEN c[name] ELSE <<>>

\* state.counter[name] as a plain dict: KeyError for a worker without entry
LookupRaisesKeyError(w, c) == (DOMAIN w \ DOMAIN c) # {}

\* some state.counter[name] of line 137 raises
LookupRaises(w, c) == FALSE

\* the table after the lookups of line 137
CounterAfter(w, c) == c

\* lines 149 and 155: worker.alive raises AttributeError on a record without
\* it, getattr with a default never raises
EntryRaises(worker) == "alive" \notin DOMAIN worker

\* lines 136-155: building the snapshot raises
BuildRaises(w, c) ==
    LookupRaises(w, c) \/ \E n \in DOMAIN w : EntryRaises(w[n])

\* dashboard_update over the workers that have a counter entry only
dashboard_update_counted(w, c) ==
    LET order == Sorted(DOMAIN w \cap DOMAIN c)
    IN  [i \in 1..Len(order) |->
            WorkerEntry(order[i], w[order[i]], CounterLookup(c, order[i]))]

\* lines 132-156: the OrderedDict, as the sequence of its values in
\* insertion order (sorted by name)
dashboard_update(w, c) ==
    LET order == Sorted(DOMAIN w)
    IN  [i \in 1..Len(order) |->
            WorkerEntry(order[i], w[order[i]], CounterLookup(c, order[i]))]

\* ---- tornado.ioloop.PeriodicCallback, as used at lines 106-111 and 122 ----

\* PeriodicCallback.start(): sets _running and schedules the next timeout
Start(t) == t + 1
\* PeriodicCallback.stop(): clears _running and removes the pending timeout
Stop(t) == 0

\* ---- the handlers ----

\* the message {} of line 100, and a tick's message
EmptyMessage == [src |-> "open", tick |-> 0, payload |-> <<>>]
TickMessage(n, u) == [src |-> "tick", tick |-> n, payload |-> u]

\* the append of line 112 repeated inside the branch of line 103
RegisterFirstTwice(ls, c) == IF ls = <<>> THEN <<c, c>> ELSE Append(ls, c)

\* line 112
Register(ls, c) == Append(ls, c)

\* line 104 without the test
NeedsTimerAlways(pc) == TRUE

\* line 104
NeedsTimer(pc) == pc = None

\* line 109
NeedsStart(r) == ~r

\* lines 103-112: the timer is built and started for the first listener,
\* and the connection joins the list
RegisterListener(c) ==
    /\ IF listeners = <<>>
       THEN /\ IF NeedsTimer(periodic_callback)
               THEN /\ periodic_callback' = [timer |-> created + 1]
                    /\ created' = created + 1
               ELSE UNCHANGED <<periodic_callback, created>>
            /\ IF NeedsStart(running)
               THEN /\ running' = TRUE
                    /\ timeouts' = Start(timeouts)
                    /\ starts' = starts + 1
               ELSE UNCHANGED <<running, timeouts, starts>>
       ELSE UNCHANGED <<periodic_callback, created, running, timeouts,
                        starts>>
    /\ listeners' = Register(listeners, c)

\* OpenIdle without the return of line 101
OpenIdleNoReturn(c) ==
    /\ received' = [received EXCEPT ![c] = Append(@, EmptyMessage)]
    /\ noRefresh' = noRefresh \cup {c}
    /\ RegisterListener(c)

\* lines 100-101: auto-refresh is off
OpenIdle(c) ==
    /\ received' = [received EXCEPT ![c] = Append(@, EmptyMessage)]
    /\ noRefresh' = noRefresh \cup {c}
    /\ UNCHANGED <<listeners, periodic_callback, running, timeouts, created,
                   starts>>

\* OpenListener with the write_message of line 100 ahead of the test
OpenListenerGreets(c) ==
    /\ RegisterListener(c)
    /\ received' = [received EXCEPT ![c] = Append(@, EmptyMessage)]
    /\ UNCHANGED noRefresh

\* lines 103-112: auto-refresh is on
OpenListener(c) ==
    /\ RegisterListener(c)
    /\ UNCHANGED <<received, noRefresh>>

\* lines 97-112; tornado calls open once, when the connection is accepted
open(c) ==
    /\ conn[c] = "new"
    /\ conn' = [conn EXCEPT ![c] = "open"]
    /\ IF ~auto_refresh THEN OpenIdle(c) ELSE OpenListener(c)
    /\ UNCHANGED <<auto_refresh, workers, counter, ticks,
                   events, closeRaised, update, http>>

\* lines 114-115
on_message(c) ==
    /\ conn[c] = "open"
    /\ UNCHANGED vars

\* the transport of an open connection goes away; tornado calls on_close in
\* a later iteration of the IOLoop
Drop(c) ==
    /\ conn[c] = "open"
    /\ conn' = [conn EXCEPT ![c] = "closing"]
    /\ UNCHANGED <<listeners, periodic_callback, running, timeouts,
                   auto_refresh, workers, counter, received,
                   created, starts, ticks, events, noRefresh, closeRaised,
                   update, http>>

\* line 119 without the test of line 118
UnregisterUnguarded(ls, c) == ListRemove(ls, c)

\* lines 118-119
Unregister(ls, c) ==
    IF In(c, ls) THEN ListRemove(ls, c) ELSE [raised |-> FALSE, list |-> ls]

\* line 120 with the test of the list inverted
ShouldStopInverted(ls, pc) == ls # <<>> /\ pc # None

\* line 120
ShouldStop(ls, pc) == ls = <<>> /\ pc # None

\* lines 117-122; tornado calls on_close once, after the connection closed.
\* An exception of line 119 ends the handler before line 120.
on_close(c) ==
    /\ conn[c] \in {"open", "closing"}
    /\ conn' = [conn EXCEPT ![c] = "closed"]
    /\ LET r == Unregister(listeners, c)
       IN  IF r.raised
           THEN /\ closeRaised' = closeRaised \cup {c}
                /\ UNCHANGED <<listeners, running, timeouts>>
           ELSE /\ listeners' = r.list
                /\ IF ShouldStop(r.list, periodic_callback)
                   THEN /\ running' = FALSE
                        /\ timeouts' = Stop(timeouts)
                   ELSE UNCHANGED <<running, timeouts>>
                /\ UNCHANGED closeRaised
    /\ UNCHANGED <<periodic_callback, auto_refresh, workers, counter,
                   received, created, starts, ticks, events,
                   noRefresh, update, http>>

\* l.write_message(update) raises WebSocketClosedError: the connection of l
\* is closed and its on_close has not run yet
WriteRaises(cn, l) == cn[l] = "closing"

\* lines 128-129: the listeners whose write_message returned, in order; the
\* loop ends at the first write_message that raises
RECURSIVE Pushed(_, _)
Pushed(ls, cn) ==
    IF ls = <<>> THEN <<>>
    ELSE IF WriteRaises(cn, Head(ls)) THEN <<>>
    ELSE <<Head(ls)>> \o Pushed(Tail(ls), cn)

\* line 127: an empty OrderedDict is falsy
Truthy(u) == u # <<>>

\* lines 124-129, run by the PeriodicCallback while it is running; an
\* exception leaves the handler and the PeriodicCallback schedules the next
\* tick all the same
on_update_time ==
    /\ running
    /\ timeouts > 0
    /\ ticks + events < MaxSteps
    /\ ticks' = ticks + 1
    /\ counter' = CounterAfter(workers, counter)
    /\ LET raised == BuildRaises(workers, counter)
           u == IF raised THEN <<>> ELSE dashboard_update(workers, counter)
           pushed == IF Truthy(u) THEN Pushed(listeners, conn) ELSE <<>>
           msg == TickMessage(ticks', u)
       IN  /\ update' = u
           /\ received' = [c \in Conns |->
                             received[c] \o [i \in 1..Count(c, pushed) |-> msg]]
    /\ UNCHANGED <<conn, listeners, periodic_callback, running, timeouts,
                   auto_refresh, workers, created, starts,
                   events, noRefresh, closeRaised, http>>

\* ---- the environment ----

\* app.options.auto_refresh is switched
SetAutoRefresh ==
    /\ auto_refresh' = ~auto_refresh
    /\ UNCHANGED <<conn, listeners, periodic_callback, running, timeouts,
                   workers, counter, received, created, starts,
                   ticks, events, noRefresh, closeRaised, update, http>>

\* the event-stream consumer records a worker in state.workers
WorkerSeen(name, rec) ==
    /\ ticks + events < MaxSteps
    /\ events' = events + 1
    /\ IF name \in DOMAIN workers THEN workers[name] # rec ELSE TRUE
    /\ workers' = [n \in DOMAIN workers \cup {name} |->
                     IF n = name THEN rec ELSE workers[n]]
    /\ UNCHANGED <<conn, listeners, periodic_callback, running, timeouts,
                   auto_refresh, counter, received, created,
                   starts, ticks, noRefresh, closeRaised, update, http>>

\* the event-stream consumer counts one event of a type for a worker
Counted(name, type) ==
    /\ ticks + events < MaxSteps
    /\ events' = events + 1
    /\ Get(CounterLookup(counter, name), type) < MaxCount
    /\ counter' = [n \in DOMAIN counter \cup {name} |->
                     LET cnt == CounterLookup(counter, n)
                     IN  IF n = name
                         THEN [t \in DOMAIN cnt \cup {type} |->
                                 IF t = type THEN Get(cnt, t) + 1 ELSE cnt[t]]
                         ELSE cnt]
    /\ UNCHANGED <<conn, listeners, periodic_callback, running, timeouts,
                   auto_refresh, workers, received, created,
                   starts, ticks, noRefresh, closeRaised, update, http>>

Init ==
    /\ conn = [c \in Conns |-> "new"]
    /\ listeners = <<>>
    /\ periodic_callback = None
    /\ running = FALSE
    /\ timeouts = 0
    /\ auto_refresh \in BOOLEAN
    /\ workers = <<>>
    /\ counter = <<>>
    /\ http = NoRequest
    /\ received = [c \in Conns |-> <<>>]
    /\ created = 0
    /\ starts = 0
    /\ ticks = 0
    /\ events = 0
    /\ noRefresh = {}
    /\ closeRaised = {}
    /\ update = <<>>

Next ==
    \/ \E c \in Conns : open(c)
    \/ \E c \in Conns : on_message(c)
    \/ \E c \in Conns : Drop(c)
    \/ \E c \in Conns : on_close(c)
    \/ on_update_time
    \/ SetAutoRefresh
    \/ \E n \in ConsumerNames, rec \in ConsumerRecords : WorkerSeen(n, rec)
    \/ \E n \in ConsumerNames, t \in ConsumerTypes : Counted(n, t)

Spec == Init /\ [][Next]_vars

\* ---- the snapshot builder under every kind of consumer event ----

\* one listener is registered and the timer runs
InitSnapshot ==
    /\ conn = [c \in Conns |-> IF c = 1 THEN "open" ELSE "new"]
    /\ listeners = <<1>>
    /\ periodic_callback = [timer |-> 1]
    /\ running = TRUE
    /\ timeouts = 1
    /\ auto_refresh = TRUE
    /\ workers = <<>>
    /\ counter = <<>>
    /\ http = NoRequest
    /\ received = [c \in Conns |-> <<>>]
    /\ created = 1
    /\ starts = 1
    /\ ticks = 0
    /\ events = 0
    /\ noRefresh = {}
    /\ closeRaised = {}
    /\ update = <<>>

NextSnapshot ==
    \/ \E n \in Names, rec \in WorkerRecords : WorkerSeen(n, rec)
    \/ \E n \in Names, t \in EventTypes : Counted(n, t)
    \/ on_update_time

SpecSnapshot == InitSnapshot /\ [][NextSnapshot]_vars

\* ---- DashboardView.get: the full (HTTP) snapshot ----

\* clock readings per second: time.time() and the heartbeat stamps are
\* floats, counted here in half seconds, so that int() has a fraction to drop
Resolution == 2

\* int(x) of a non-negative float
int(x) == x \div Resolution

\* max(list) of a non-empty list
Max(s) == CHOOSE x \in Range(s) : \A y \in Range(s) : y <= x

\* line 78: the attributes _info reads off a worker
InfoFields ==
    {"hostname", "pid", "freq", "heartbeats", "clock", "active", "processed",
     "loadavg", "sw_ident", "sw_ver", "sw_sys"}

\* getattr(worker, key, None).  Values are tagged by their python type: an
\* integer [int |-> v], a list [list |-> s], a boolean [bool |-> b].
Attribute(worker, key) ==
    IF key \notin DOMAIN worker THEN None
    ELSE IF key = "heartbeats" THEN [list |-> worker[key]]
    ELSE [int |-> worker[key]]

\* lines 76-88: the attributes of the worker that are not None
_info(worker) ==
    [k \in {f \in InfoFields : Attribute(worker, f) # None} |->
        Attribute(worker, k)]

\* lines 69-74: every field of a worker that declares _fields (here the
\* record's "fields"), the attributes that are not None of any other
_as_dict(worker) ==
    IF "fields" \in DOMAIN worker
    THEN [k \in worker.fields |-> Attribute(worker, k)]
    ELSE _info(worker)

\* dict.update
DictUpdate(d, e) ==
    [k \in DOMAIN d \cup DOMAIN e |-> IF k \in DOMAIN e THEN e[k] ELSE d[k]]

\* line 43: dict(values), a copy of the worker's counter entry
DictOf(values) == [k \in DOMAIN values |-> [int |-> values[k]]]

\* lines 43-45: the entry of one worker in the full snapshot
Info(values, worker) ==
    DictUpdate(DictUpdate(DictOf(values), _as_dict(worker)),
               [status |-> [bool |-> worker.alive]])

\* a build that keeps the names the registry does not know
SkipNever(name, w) == FALSE

\* lines 40-41: a name of the counter table the registry does not know
Skip(name, w) == name \notin DOMAIN w

\* line 42: events.workers[name] raises KeyError
WorkerLookupRaises(w, c) ==
    \E name \in DOMAIN c : ~Skip(name, w) /\ name \notin DOMAIN w

\* lines 38-46: the dict workers of the full snapshot
BuildWorkers(w, c) ==
    [name \in {n \in DOMAIN c : ~Skip(n, w)} |-> Info(c[name], w[name])]

\* lines 51-52 with the test left out: every worker counts as offline
OnlineNever(info) == FALSE

\* lines 51-52: info.get('status', True)
Online(info) == IF "status" \in DOMAIN info THEN info.status.bool ELSE TRUE

\* lines 54-55: int(max(heartbeats)) if heartbeats else None
LastHeartbeat(info) ==
    LET heartbeats == IF "heartbeats" \in DOMAIN info THEN info.heartbeats
                      ELSE [list |-> <<>>]
    IN  IF "list" \in DOMAIN heartbeats /\ heartbeats.list # <<>>
        THEN [int |-> int(Max(heartbeats.list))]
        ELSE None

\* line 56 with >= in place of >
ExpiredAtThreshold(last_heartbeat, timestamp, purge) ==
    IF last_heartbeat = None \/ last_heartbeat = [int |-> 0] THEN TRUE
    ELSE timestamp - last_heartbeat.int >= purge

\* line 56: not last_heartbeat or timestamp - last_heartbeat > purge
Expired(last_heartbeat, timestamp, purge) ==
    IF last_heartbeat = None \/ last_heartbeat = [int |-> 0] THEN TRUE
    ELSE timestamp - last_heartbeat.int > purge

\* lines 50-58: the names collected in offline_workers
OfflineWorkers(view, timestamp, purge) ==
    {name \in DOMAIN view :
        /\ ~Online(view[name])
        /\ Expired(LastHeartbeat(view[name]), timestamp, purge)}

\* lines 48-61: the snapshot after the purge; purge_offline_workers is None
\* or [int |-> seconds], timestamp is int(time.time())
Purged(view, timestamp, purge_offline_workers) ==
    IF purge_offline_workers = None THEN view
    ELSE [name \in DOMAIN view
             \ OfflineWorkers(view, timestamp, purge_offline_workers.int) |->
            view[name]]

\* lines 63-67: the response: the values of the snapshot as JSON, or the
\* dashboard page rendered from it.  A python dict is held as the mapping.
Response(view, json, autoRefresh) ==
    IF json THEN [kind |-> "json", data |-> view]
    ELSE [kind |-> "html", workers |-> view,
          autorefresh |-> IF autoRefresh THEN 1 ELSE 0]

\* an exception left get: tornado answers with status 500
ErrorResponse == [kind |-> "error", status |-> 500]

\* the refresh failure reraised instead of logged
SurfacedUncaught(failed) == failed

\* lines 33-36: the try/except logs the failure of update_workers
Surfaced(failed) == FALSE

\* lines 30, 38-67: what get answers from the tables it finds
Answer(w, c, timestamp, purge_offline_workers, json, autoRefresh) ==
    IF WorkerLookupRaises(w, c) THEN ErrorResponse
    ELSE Response(Purged(BuildWorkers(w, c), timestamp,
                         purge_offline_workers), json, autoRefresh)

\* line 43 with info = values: lines 44-45 write into the counter's entry
StoredAliased(values, info) == info

\* line 43: info is a copy, lines 44-45 leave the counter's entry as it was
Stored(values, info) == values

\* lines 38-46: the counter table after the build
CounterAfterGet(w, c) ==
    IF WorkerLookupRaises(w, c) THEN c
    ELSE [name \in DOMAIN c |->
            IF Skip(name, w) THEN c[name]
            ELSE Stored(c[name], Info(c[name], w[name]))]

\* lines 38-67: get builds, purges and answers
Respond(json, refresh, failed, timestamp, purge_offline_workers) ==
    /\ http' = [pc |-> "done", json |-> json, refresh |-> refresh,
                failed |-> failed, timestamp |-> timestamp,
                purge |-> purge_offline_workers,
                response |->
                    IF Surfaced(failed) THEN ErrorResponse
                    ELSE Answer(workers, counter, timestamp,
                                purge_offline_workers, json, auto_refresh)]
    /\ counter' = IF Surfaced(failed) THEN counter
                  ELSE CounterAfterGet(workers, counter)
    /\ UNCHANGED <<conn, listeners, periodic_callback, running, timeouts,
                   auto_refresh, workers, received, created, starts, ticks,
                   events, noRefresh, closeRaised, update>>

\* lines 23-67: a GET arrives.  With refresh it suspends at the yield of
\* line 34, without it answers at once.
get(json, refresh, timestamp, purge_offline_workers) ==
    /\ http.pc = "idle"
    /\ IF refresh
       THEN /\ http' = [pc |-> "refreshing", json |-> json]
            /\ UNCHANGED <<conn, listeners, periodic_callback, running,
                           timeouts, auto_refresh, workers, counter,
                           received, created, starts, ticks, events,
                           noRefresh, closeRaised, update>>
       ELSE Respond(json, FALSE, FALSE, timestamp, purge_offline_workers)

\* lines 34-67: ListWorkers.update_workers has returned or failed, and get
\* goes on from the yield
get_resumed(failed, timestamp, purge_offline_workers) ==
    /\ http.pc = "refreshing"
    /\ Respond(http.json, TRUE, failed, timestamp, purge_offline_workers)

\* ---- one GET among consumer events and ticks ----

MaxTime == 3
MaxPurge == 1
MaxBeats == 2

\* int(time.time())
Timestamps == 1..MaxTime

\* options.purge_offline_workers
PurgeOptions == {None} \cup {[int |-> t] : t \in 0..MaxPurge}

\* the clock and the option of the request that runs among ticks
HttpTimestamps == {MaxTime}
HttpPurgeOptions == {None, [int |-> MaxPurge]}

\* a loose live worker, a dead worker without heartbeats, a dead worker that
\* reports an active count, and a worker that declares its fields
HttpWorkerRecords ==
    {[alive |-> TRUE],
     [alive |-> FALSE],
     [alive |-> FALSE, active |-> 1, heartbeats |-> <<Resolution>>],
     [alive |-> TRUE, active |-> MaxCount + 1, fields |-> InfoFields]}

\* the behaviour is followed up to the response of the one request
Serving == http.pc # "done"

NextHttp ==
    \/ \E n \in Names, rec \in HttpWorkerRecords : Serving /\ WorkerSeen(n, rec)
    \/ \E n \in Names, t \in ConsumerTypes : Serving /\ Counted(n, t)
    \/ Serving /\ on_update_time
    \/ \E json, refresh \in BOOLEAN :
         \E t \in HttpTimestamps, p \in HttpPurgeOptions :
           get(json, refresh, t, p)
    \/ \E failed \in BOOLEAN, t \in HttpTimestamps, p \in HttpPurgeOptions :
           get_resumed(failed, t, p)

SpecHttp == InitSnapshot /\ [][NextHttp]_vars

\* ---- the offline purge under every heartbeat history ----

\* heartbeat stamps, in clock readings: from second 1 on
Stamps == Resolution .. (Resolution * MaxTime + Resolution - 1)

\* a worker as the consumer first records it: no heartbeat yet
PurgeWorkerRecords ==
    {[alive |-> a, heartbeats |-> <<>>] : a \in BOOLEAN}

\* the event-stream consumer adds a heartbeat stamp to the worker's history
Heartbeat(name, stamp) ==
    /\ ticks + events < MaxSteps
    /\ events' = events + 1
    /\ name \in DOMAIN workers
    /\ IF name \in DOMAIN workers
       THEN /\ Len(workers[name].heartbeats) < MaxBeats
            /\ workers' = [workers EXCEPT ![name].heartbeats =
                                             Append(@, stamp)]
       ELSE FALSE
    /\ UNCHANGED <<conn, listeners, periodic_callback, running, timeouts,
                   auto_refresh, counter, received, created, starts, ticks,
                   noRefresh, closeRaised, update, http>>

NextPurge ==
    \/ \E n \in ConsumerNames, rec \in PurgeWorkerRecords :
           Serving /\ WorkerSeen(n, rec)
    \/ \E n \in ConsumerNames, stamp \in Stamps :
           Serving /\ Heartbeat(n, stamp)
    \/ \E n \in ConsumerNames : Serving /\ Counted(n, "task-started")
    \/ \E t \in Timestamps, p \in PurgeOptions : get(TRUE, FALSE, t, p)

SpecPurge == InitSnapshot /\ [][NextPurge]_vars

\* ---- properties ----

\* the workers dict a response of get was made from
ResponseWorkers(response) ==
    IF response.kind = "json" THEN response.data ELSE response.workers

\* the step in which get answers
Answers == http.pc # "done" /\ http'.pc = "done"

\* names counted by the consumer that the registry does not know
Orphans == DOMAIN counter \ DOMAIN workers

\* get has answered with the purge enabled
PurgedAnswer ==
    /\ http.pc = "done"
    /\ http.purge # None
    /\ http.response.kind # "error"

\* the workers the build of get takes into its snapshot
Built == DOMAIN counter \cap DOMAIN workers

\* the latest stamp of a non-empty heartbeat history
Latest(heartbeats) ==
    CHOOSE x \in Range(heartbeats) : \A y \in Range(heartbeats) : y <= x

Registered(c) == In(c, listeners)

\* C1: the shared timer is running, with a timeout pending, if and only if
\* the listener list is non-empty; a tick needs the running timer, so none
\* fires between the close that empties the list and the next registration.
TimerRunsIffListeners ==
    /\ running <=> listeners # <<>>
    /\ timeouts > 0 <=> listeners # <<>>

\* the last listener closed after a tick: the timer exists and is stopped
TimerStoppedByLastClose ==
    /\ created = 1
    /\ ticks > 0
    /\ listeners = <<>>
    /\ ~running
    /\ \E c \in Conns : conn[c] = "closed" /\ c \notin noRefresh

\* C2: in a tick with a non-empty snapshot every listener whose connection
\* is open receives the payload, also when the push to another listener
\* fails.
PushFailureIsolated ==
    [][(ticks' = ticks + 1 /\ Truthy(update'))
         => \A l \in Conns :
              (Registered(l) /\ conn[l] = "open")
                 => Len(received'[l]) = Len(received[l]) + 1]_vars

\* C3: a tick with an empty snapshot pushes nothing; a tick with a
\* non-empty snapshot makes exactly one push to each registered listener
\* whose connection is open, all with the same payload, and none to others.
OnePushPerListener ==
    [][ticks' = ticks + 1
         => \A l \in Conns :
              IF Truthy(update') /\ Registered(l) /\ conn[l] = "open"
              THEN received'[l] =
                     Append(received[l], TickMessage(ticks', update'))
              ELSE received'[l] = received[l]]_vars

\* C4: a connection opened with auto-refresh off has received exactly the
\* one message {} and is not in the listener list, whatever happened since.
IdleConnectionGetsOneEmptyMessage ==
    \A c \in noRefresh : received[c] = <<EmptyMessage>> /\ ~Registered(c)

\* an idle connection is open, auto-refresh was switched on, and a tick
\* has pushed to a connection that registered
IdleBesideServedListener ==
    \E c \in noRefresh, d \in Conns :
        /\ conn[c] = "open"
        /\ auto_refresh
        /\ Registered(d)
        /\ received[d] # <<>>

\* C5: on_close of a connection that is not in the listener list raises
\* nothing and leaves the list as it is, and the timer keeps running when
\* listeners remain.
UnregisteredCloseIsNoOp ==
    [][\A c \in Conns :
          (conn[c] # "closed" /\ conn'[c] = "closed" /\ ~Registered(c))
             => /\ listeners' = listeners
                /\ c \notin closeRaised'
                /\ listeners # <<>>
                      => running /\ running' /\ timeouts' = timeouts]_vars

\* an idle connection has closed while a listener is registered
IdleClosedBesideListener ==
    /\ \E c \in noRefresh : conn[c] = "closed"
    /\ listeners # <<>>
    /\ running

\* C6: once every connection that opened has closed, the listener list is
\* empty and the timer is stopped.
AllClosedMeansStopped ==
    (\A c \in Conns : conn[c] \in {"new", "closed"})
       => listeners = <<>> /\ ~running /\ timeouts = 0

\* every connection registered, saw a tick fire, and closed
AllRegisteredAndClosed ==
    /\ \A c \in Conns : conn[c] = "closed" /\ c \notin noRefresh
    /\ ticks > 0

\* C7: at most one timer object is ever built and it is the one in use;
\* start is never called on a running timer, so at most one timeout is
\* pending, and a stopped timer has none.
TimerBuiltOnce ==
    /\ created <= 1
    /\ periodic_callback \in {None, [timer |-> 1]}
    /\ periodic_callback = None <=> created = 0
    /\ timeouts = IF running THEN 1 ELSE 0

\* the one timer object runs again after a stop
TimerRestarted ==
    /\ starts >= 2
    /\ created = 1
    /\ running

ListenerHearsOnlyLaterTicks ==
    [][\A c \in Conns :
          /\ (~Registered(c) /\ In(c, listeners')) => received'[c] = <<>>
          /\ (received'[c] # received[c] /\ c \notin noRefresh')
                => /\ Registered(c)
                   /\ ticks' = ticks + 1
                   /\ received'[c] =
                        Append(received[c], TickMessage(ticks', update'))]_vars

\* a listener registered after tick 1 had been pushed, and its first
\* message is the one of tick 2
FirstMessageFromLaterTick ==
    \E c, d \in Conns :
        /\ received[d] # <<>>
        /\ received[d][1].tick = 1
        /\ Registered(c)
        /\ received[c] # <<>>
        /\ received[c][1].tick = 2

\* C10: a snapshot built by dashboard_update has one entry per worker of
\* the registry, and its active field is the integer started - succeeded -
\* failed - retried when that is >= 0 and the sentinel N/A when it is
\* negative, with the counters of the worker's entry and 0 for an absent one.
ActiveIsDifferenceOrNA ==
    [][(ticks' = ticks + 1 /\ ~BuildRaises(workers, counter))
         => /\ {update'[i].name : i \in 1..Len(update')} = DOMAIN workers
            /\ \A i \in 1..Len(update') :
                 LET e == update'[i]
                     cnt == IF e.name \in DOMAIN counter
                            THEN counter[e.name] ELSE <<>>
                     n(k) == IF k \in DOMAIN cnt THEN cnt[k] ELSE 0
                     d == n("task-started") - n("task-succeeded")
                            - n("task-failed") - n("task-retried")
                 IN  /\ d >= 0 => e.active = [int |-> d]
                     /\ d < 0 => e.active = [str |-> NA]
                     /\ "int" \in DOMAIN e.active => e.active.int >= 0]_vars

\* a snapshot with an N/A worker beside a worker with an integer count
SnapshotWithSentinel ==
    \E i, j \in 1..Len(update) :
        /\ update[i].active = [str |-> NA]
        /\ "int" \in DOMAIN update[j].active

\* C15: dashboard_update has no error path: every timer tick completes the
\* build with one entry per worker of the registry, and a worker of the
\* registry without an entry in the counter table gets an entry whose
\* counts are all 0 and whose active count is 0.
TickBuildNeverRaises ==
    [][ticks' = ticks + 1
         => /\ ~BuildRaises(workers, counter)
            /\ Len(update') = Cardinality(DOMAIN workers)
            /\ \A i \in 1..Len(update') :
                 update'[i].name \notin DOMAIN counter
                   => /\ update'[i].processed = 0
                      /\ update'[i].failed = 0
                      /\ update'[i].succeeded = 0
                      /\ update'[i].retried = 0
                      /\ update'[i].active = [int |-> 0]]_vars

\* a tick has built the entry of a worker that has no counter entry and no
\* loadavg attribute
UncountedWorkerInSnapshot ==
    \E i \in 1..Len(update) :
        /\ update[i].name \in DOMAIN workers \ DOMAIN counter
        /\ update[i].loadavg = None

\* C17: the payload of every per-tick message a listener has received lists
\* its worker entries in ascending order of the worker names.
PayloadAscendingByName ==
    \A c \in Conns : \A k \in 1..Len(received[c]) :
        LET payload == received[c][k].payload
        IN  \A i, j \in 1..Len(payload) :
                i < j => payload[i].name < payload[j].name

\* a listener has received a payload with two worker entries
TwoWorkerPayloadReceived ==
    \E c \in Conns : \E k \in 1..Len(received[c]) :
        /\ received[c][k].src = "tick"
        /\ Len(received[c][k].payload) = 2

\* C11: in the full snapshot get answers with, every worker has an active
\* field equal to started - succeeded - failed - retried of the worker's
\* counter entry, or to the sentinel N/A when that is negative, and never a
\* negative number.
FullSnapshotActiveDerived ==
    (http.pc = "done" /\ http.response.kind # "error")
      => \A name \in DOMAIN ResponseWorkers(http.response) :
           LET info == ResponseWorkers(http.response)[name]
               cnt == counter[name]
               d == Get(cnt, "task-started") - Get(cnt, "task-succeeded")
                      - Get(cnt, "task-failed") - Get(cnt, "task-retried")
           IN  /\ "active" \in DOMAIN info
               /\ IF "active" \in DOMAIN info
                  THEN info.active = (IF d < 0 THEN [str |-> NA]
                                      ELSE [int |-> d])
                  ELSE FALSE

\* C12: each builder produces its snapshot, and the snapshot has no entry
\* for a name that the counter table holds and the registry does not: not
\* the one get answers with, not the one a tick builds.
NoEntryForUnregisteredName ==
    [][/\ ticks' = ticks + 1
           => \A i \in 1..Len(update') : update'[i].name \notin Orphans
       /\ Answers
           => /\ http'.response.kind # "error"
              /\ IF http'.response.kind # "error"
                 THEN DOMAIN ResponseWorkers(http'.response) \cap Orphans = {}
                 ELSE FALSE]_vars

\* get has answered with a worker, a tick has built the snapshot of the same
\* tables, and the counter table holds a name the registry does not know
AnsweredBesideOrphan ==
    /\ http.pc = "done"
    /\ http.response.kind # "error"
    /\ DOMAIN ResponseWorkers(http.response) # {}
    /\ Orphans # {}
    /\ update # <<>>
    /\ update = dashboard_update(workers, counter)

\* C13: when get answers with the purge enabled at threshold T and the
\* clock at now, a live worker is in the answer whatever its heartbeats, a
\* dead worker without heartbeats is not, a dead worker whose latest
\* heartbeat is at now - T - 1 is not, and a dead worker whose latest
\* heartbeat is at now - T + 1 is.
PurgeRemovesOnlyStaleDeadWorkers ==
    PurgedAnswer
      => \A name \in Built :
           LET w == workers[name]
               kept == name \in DOMAIN ResponseWorkers(http.response)
               now == http.timestamp
               T == http.purge.int
           IN  /\ w.alive => kept
               /\ (~w.alive /\ w.heartbeats = <<>>) => ~kept
               /\ (~w.alive /\ w.heartbeats # <<>>)
                    => /\ Latest(w.heartbeats) = Resolution * (now - T - 1)
                          => ~kept
                       /\ Latest(w.heartbeats) = Resolution * (now - T + 1)
                          => kept

\* a dead worker whose latest heartbeat, not the last of its history, is at
\* now - T - 1 has been purged from the answer
StaleDeadWorkerPurged ==
    /\ PurgedAnswer
    /\ \E name \in Built :
          /\ ~workers[name].alive
          /\ Len(workers[name].heartbeats) = 2
          /\ workers[name].heartbeats[1] > workers[name].heartbeats[2]
          /\ workers[name].heartbeats[1]
               = Resolution * (http.timestamp - http.purge.int - 1)
          /\ name \notin DOMAIN ResponseWorkers(http.response)

\* C18: the comparison of the purge is strict: when get answers with the
\* purge enabled at threshold T and the clock at now, a dead worker with
\* heartbeats is in the answer exactly when now minus its latest heartbeat,
\* truncated to whole seconds, is at most T; at exactly T it is retained.
PurgeComparisonStrict ==
    PurgedAnswer
      => \A name \in Built :
           LET w == workers[name]
               kept == name \in DOMAIN ResponseWorkers(http.response)
           IN  (~w.alive /\ w.heartbeats # <<>>)
                 => LET last == Latest(w.heartbeats) \div Resolution
                    IN  kept <=> http.timestamp - last <= http.purge.int

\* a dead worker whose latest heartbeat has a fraction and truncates to
\* exactly now - T is retained
DeadWorkerAtThresholdRetained ==
    /\ PurgedAnswer
    /\ \E name \in Built :
          /\ ~workers[name].alive
          /\ workers[name].heartbeats # <<>>
          /\ Latest(workers[name].heartbeats) % Resolution # 0
          /\ Latest(workers[name].heartbeats) \div Resolution
               = http.timestamp - http.purge.int
          /\ name \in DOMAIN ResponseWorkers(http.response)

RefreshFailureNotSurfaced ==
    [][(Answers /\ http'.refresh)
         => /\ http'.response.kind # "error"
            /\ http'.response =
                 Response(Purged(BuildWorkers(workers, counter),
                                 http'.timestamp, http'.purge),
                          http'.json, auto_refresh)]_vars

\* get has answered with a worker after update_workers failed
AnsweredAfterFailedRefresh ==
    /\ http.pc = "done"
    /\ http.refresh
    /\ http.failed
    /\ http.response.kind # "error"
    /\ DOMAIN ResponseWorkers(http.response) # {}

\* C19: the broadcast path neither purges nor looks at the key set of the
\* counter table: every tick builds an entry for exactly the workers of the
\* registry, and the workers in an answer of get are among the workers of
\* the snapshot dashboard_update builds from the same tables.
TickSnapshotCoversHttpSnapshot ==
    [][/\ ticks' = ticks + 1
           => {update'[i].name : i \in 1..Len(update')} = DOMAIN workers
       /\ (Answers /\ http'.response.kind # "error")
           => LET narrow == dashboard_update(workers, counter)
              IN  /\ DOMAIN ResponseWorkers(http'.response)
                       \subseteq {narrow[i].name : i \in 1..Len(narrow)}
                  /\ {narrow[i].name : i \in 1..Len(narrow)}
                       = DOMAIN workers]_vars

\* the snapshot of the last tick, built from the tables get answered from,
\* holds a dead worker that get purged and a worker that get skipped for
\* want of a counter entry
TickHoldsPurgedAndSkipped ==
    /\ http.pc = "done"
    /\ http.response.kind # "error"
    /\ update = dashboard_update(workers, counter)
    /\ \E i, j \in 1..Len(update) :
          /\ ~update[i].status
          /\ update[i].name \in Built
          /\ update[i].name \notin DOMAIN ResponseWorkers(http.response)
          /\ update[j].name \notin DOMAIN counter

====
